---- MODULE Spec2Model ----
(***************************************************************************)
(* PortManager (portmanager.py): SSH connection profiles kept in two JSON  *)
(* files, and the ssh command line built from a profile.                   *)
(*                                                                         *)
(* Python values are tagged records, dicts keep their insertion order as a *)
(* sequence of <<key, value>> pairs, and a file holds JSON text as a       *)
(* sequence of tokens, so that json.dump and json.load are real            *)
(* conversions.                                                            *)
(***************************************************************************)
EXTENDS Integers, Sequences, FiniteSets, TLC

(***************************************************************************)
(* Bounds of the model.                                                    *)
(***************************************************************************)
MaxClock    == 2    \* the last tick of the wall clock
MaxForwards == 2    \* add_forward is called on a profile with fewer forwards

(***************************************************************************)
(* Python values.                                                          *)
(***************************************************************************)
PyNone     == [ty |-> "none"]
PyStr(s)   == [ty |-> "str", s |-> s]
PyInt(n)   == [ty |-> "int", n |-> n]
PyBool(b)  == [ty |-> "bool", b |-> b]
PyList(xs) == [ty |-> "list", xs |-> xs]
PyDict(kv) == [ty |-> "dict", kv |-> kv]

EmptyDict == PyDict(<<>>)
EmptyList == PyList(<<>>)

IsDict(v) == v.ty = "dict"

\* bool(v) for the values the program tests
Truthy(v) ==
  CASE v.ty = "none" -> FALSE
    [] v.ty = "str"  -> v.s # ""
    [] v.ty = "int"  -> v.n # 0
    [] v.ty = "bool" -> v.b
    [] v.ty = "list" -> v.xs # <<>>
    [] v.ty = "dict" -> v.kv # <<>>

\* str(v) for an int or a str, as str() and the f-strings format it
str(v) == IF v.ty = "int" THEN ToString(v.n) ELSE v.s

Keys(d) == {d.kv[i][1] : i \in 1..Len(d.kv)}

\* k in d
Has(d, k) == k \in Keys(d)

IndexOf(d, k) == CHOOSE i \in 1..Len(d.kv) : d.kv[i][1] = k

\* d[k]
Get(d, k) == d.kv[IndexOf(d, k)][2]

\* d.get(k, default)
GetDefault(d, k, default) == IF Has(d, k) THEN Get(d, k) ELSE default

\* d[k] = v : an existing key keeps its place, a new key goes last
Set(d, k, v) ==
  IF Has(d, k)
    THEN PyDict([d.kv EXCEPT ![IndexOf(d, k)] = <<k, v>>])
    ELSE PyDict(Append(d.kv, <<k, v>>))

\* del d[k]
Del(d, k) ==
  LET i == IndexOf(d, k)
  IN  PyDict(SubSeq(d.kv, 1, i - 1) \o SubSeq(d.kv, i + 1, Len(d.kv)))

\* d1 == d2 for dicts of dicts: the same keys with equal values, in any order
RECURSIVE PyEq(_, _)
PyEq(a, b) ==
  IF a.ty # b.ty THEN FALSE
  ELSE IF a.ty = "dict"
    THEN /\ Keys(a) = Keys(b)
         /\ \A k \in Keys(a) : PyEq(Get(a, k), Get(b, k))
  ELSE IF a.ty = "list"
    THEN /\ Len(a.xs) = Len(b.xs)
         /\ \A i \in 1..Len(a.xs) : PyEq(a.xs[i], b.xs[i])
  ELSE a = b

(***************************************************************************)
(* JSON text: a sequence of tokens.                                        *)
(***************************************************************************)
Punct(c) == [ty |-> "punct", c |-> c]
LBrace   == Punct("{")
RBrace   == Punct("}")
LBrack   == Punct("[")
RBrack   == Punct("]")
Colon    == Punct(":")
Comma    == Punct(",")
Word(w)  == [ty |-> "word", w |-> w]   \* text that is no JSON token

\* json.dump(v, f, indent=2), white space left out
RECURSIVE dumps(_)
RECURSIVE dumps_items(_, _)
RECURSIVE dumps_members(_, _)
dumps(v) ==
  CASE v.ty = "list" -> <<LBrack>> \o dumps_items(v.xs, 1) \o <<RBrack>>
    [] v.ty = "dict" -> <<LBrace>> \o dumps_members(v.kv, 1) \o <<RBrace>>
    [] OTHER         -> <<v>>
dumps_items(xs, i) ==
  IF i > Len(xs) THEN <<>>
  ELSE (IF i > 1 THEN <<Comma>> ELSE <<>>) \o dumps(xs[i]) \o dumps_items(xs, i + 1)
dumps_members(kv, i) ==
  IF i > Len(kv) THEN <<>>
  ELSE (IF i > 1 THEN <<Comma>> ELSE <<>>)
         \o <<PyStr(kv[i][1]), Colon>> \o dumps(kv[i][2])
         \o dumps_members(kv, i + 1)

\* The JSON decoder.  A parse is [ok, val, next]: next is the position after
\* the value read.
Fail == [ok |-> FALSE]
Ok(v, j) == [ok |-> TRUE, val |-> v, next |-> j]

IsAtom(t) == t.ty \in {"none", "str", "int", "bool"}

RECURSIVE parse_value(_, _)
RECURSIVE parse_items(_, _, _)
RECURSIVE parse_members(_, _, _)
parse_value(toks, i) ==
  IF i > Len(toks) THEN Fail
  ELSE IF IsAtom(toks[i]) THEN Ok(toks[i], i + 1)
  ELSE IF toks[i] = LBrack
    THEN IF i + 1 <= Len(toks) /\ toks[i + 1] = RBrack
           THEN Ok(EmptyList, i + 2)
           ELSE parse_items(toks, i + 1, <<>>)
  ELSE IF toks[i] = LBrace
    THEN IF i + 1 <= Len(toks) /\ toks[i + 1] = RBrace
           THEN Ok(EmptyDict, i + 2)
           ELSE parse_members(toks, i + 1, EmptyDict)
  ELSE Fail
\* the items of an array from position i on, xs being those read so far
parse_items(toks, i, xs) ==
  LET r == parse_value(toks, i)
  IN  IF ~r.ok \/ r.next > Len(toks) THEN Fail
      ELSE IF toks[r.next] = RBrack THEN Ok(PyList(Append(xs, r.val)), r.next + 1)
      ELSE IF toks[r.next] = Comma THEN parse_items(toks, r.next + 1, Append(xs, r.val))
      ELSE Fail
\* the members of an object from position i on; a repeated key keeps its
\* last value
parse_members(toks, i, d) ==
  IF i + 1 > Len(toks) \/ toks[i].ty # "str" \/ toks[i + 1] # Colon THEN Fail
  ELSE LET r == parse_value(toks, i + 2)
       IN  IF ~r.ok \/ r.next > Len(toks) THEN Fail
           ELSE IF toks[r.next] = RBrace
             THEN Ok(Set(d, toks[i].s, r.val), r.next + 1)
           ELSE IF toks[r.next] = Comma
             THEN parse_members(toks, r.next + 1, Set(d, toks[i].s, r.val))
           ELSE Fail

\* json.load(f): the whole text must be one value, else it raises
loads(toks) ==
  LET r == parse_value(toks, 1)
  IN  IF r.ok /\ r.next = Len(toks) + 1 THEN r ELSE Fail


(***************************************************************************)
(* The state: the configuration directory and the two store files, the     *)
(* wall clock, the key files on disk, and the last call with its outcome.  *)
(***************************************************************************)
VARIABLES
  config_dir,      \* CONFIG_DIR exists
  profiles_file,   \* PROFILES_FILE: [exists, text]
  active_file,     \* ACTIVE_FILE: [exists, text]
  now,             \* the wall clock that datetime.now() reads
  disk,            \* the paths os.path.exists() finds
  call,            \* the last call: its arguments, return value, exception
  exit_code,       \* what main() returned last, PyNone before its first run
  running          \* the invocations of the tool under way, and what each holds

vars == <<config_dir, profiles_file, active_file, now, disk, call, exit_code, running>>

\* a call of a function of the module from outside main(), as the tests make
\* it, and a step of the environment: no exit code, no invocation under way
Direct == UNCHANGED <<exit_code, running>>

NoFile == [exists |-> FALSE, text |-> <<>>]
FileOf(text) == [exists |-> TRUE, text |-> text]

\* datetime.now().isoformat()
isoformat(t) == PyStr("2025-01-01T00:00:0" \o ToString(t))

\* a call that returned v, and a call that raised exc
\* cmd is the command line the call built and launched tells whether a client
\* process was started with it; out is what the call printed.
Returned(op, args, v, out) ==
  [op |-> op, args |-> args, ret |-> v, exc |-> "", cmd |-> <<>>, launched |-> FALSE,
   out |-> out]
Raised(op, args, exc, out) ==
  [op |-> op, args |-> args, ret |-> PyNone, exc |-> exc, cmd |-> <<>>,
   launched |-> FALSE, out |-> out]
Launched(c, cmd) == [c EXCEPT !.cmd = cmd, !.launched = TRUE]

(***************************************************************************)
(* UTILITIES                                                               *)
(***************************************************************************)
\* load_profiles() with None returned when json.load raises
load_profiles_none(file) ==
  IF ~file.exists THEN EmptyDict
  ELSE LET r == loads(file.text)
       IN  IF r.ok THEN r.val ELSE PyNone

\* load_profiles(): {} when the file is absent or json.load raises
load_profiles(file) ==
  IF ~file.exists THEN EmptyDict
  ELSE LET r == loads(file.text)
       IN  IF r.ok THEN r.val ELSE EmptyDict

\* profiles[k] = v for every entry of entries from the i-th on
RECURSIVE update(_, _, _)
update(d, entries, i) ==
  IF i > Len(entries) THEN d
  ELSE update(Set(d, entries[i][1], entries[i][2]), entries, i + 1)

\* the file after a save that, holding a lock, reads the file again and puts
\* the entries of profiles into what it finds there
save_profiles_merged(profiles) ==
  FileOf(dumps(update(load_profiles(profiles_file), profiles.kv, 1)))

\* the file after f.write(str(profiles)), which is no JSON text
save_profiles_repr(profiles) == FileOf(<<Word("repr")>>)

\* save_profiles(profiles): the file after the call
save_profiles(profiles) == FileOf(dumps(profiles))

\* a save that writes a temporary file and renames it when it is complete:
\* cut short, it leaves the file as it was
cut_save_renamed(profiles, k, torn) == profiles_file

\* save_profiles(profiles) cut short by the death of the process: open(..., 'w')
\* has emptied the file and the first k tokens of the text have reached it,
\* followed, if torn, by a piece of the next token
cut_save(profiles, k, torn) ==
  FileOf(SubSeq(dumps(profiles), 1, k) \o (IF torn THEN <<Word("torn")>> ELSE <<>>))

\* load_active() that starts from an empty mapping whatever the file holds
load_active_forgetful(file) == EmptyDict

\* load_active()
load_active(file) ==
  IF ~file.exists THEN EmptyDict
  ELSE LET r == loads(file.text)
       IN  IF r.ok THEN r.val ELSE EmptyDict

\* save_active(active): the file after the call
save_active(active) == FileOf(dumps(active))

\* `k in v` for a loaded value: "TypeError" where Python raises it
CanContain(v) == v.ty \in {"dict", "list"}
In(k, v) ==
  IF v.ty = "dict" THEN Has(v, k)
  ELSE \E i \in 1..Len(v.xs) : v.xs[i] = PyStr(k)

(***************************************************************************)
(* PROFILE MANAGEMENT                                                      *)
(***************************************************************************)
\* the record add_profile builds
new_profile(t, host, user, port, key, forwards) ==
  LET base  == PyDict(<< <<"host", host>>, <<"user", user>>, <<"port", port>>,
                         <<"created", isoformat(t)>>, <<"last_used", PyNone>> >>)
      keyed == IF Truthy(key) THEN Set(base, "key", key) ELSE base
  IN  IF Truthy(forwards)
        THEN Set(keyed, "forwards", forwards)
        ELSE Set(keyed, "forwards", EmptyList)

\* profiles[name] = profile, with the creation time of a prior record kept
put_profile_keeping_created(profiles, name, profile) ==
  IF Has(profiles, name)
    THEN Set(profiles, name, Set(profile, "created", Get(Get(profiles, name), "created")))
    ELSE Set(profiles, name, profile)

\* profiles[name] = profile
put_profile(profiles, name, profile) == Set(profiles, name, profile)

add_profile(name, host, user, port, key, forwards) ==
  LET profiles == load_profiles(profiles_file)
      profile  == new_profile(now, host, user, port, key, forwards)
      args     == [name |-> name, host |-> host, user |-> user, port |-> port,
                   key |-> key, forwards |-> forwards]
  IN  IF ~IsDict(profiles)
        THEN \* profiles[name] = profile raises on a list or a number
             /\ call' = Raised("add_profile", args, "TypeError", <<>>)
             /\ UNCHANGED <<config_dir, profiles_file, active_file, now, disk>>
        ELSE /\ profiles_file' = save_profiles(put_profile(profiles, name, profile))
             /\ config_dir' = TRUE
             /\ call' = Returned("add_profile", args, PyNone, <<"[OK] saved">>)
             /\ UNCHANGED <<active_file, now, disk>>

\* sorted() on the names of the model
SortedNames == <<"conn1", "nonexistent", "p", "s1", "s2", "test1">>
sorted(names) == SelectSeq(SortedNames, LAMBDA n : n \in names)

\* list_profiles(): prints the profiles in the order of their names, changes
\* nothing and returns None
list_profiles ==
  LET profiles == load_profiles(profiles_file)
  IN  /\ call' = IF ~Truthy(profiles)
                   THEN Returned("list_profiles", <<>>, PyNone, <<"No profiles saved yet.">>)
                 ELSE IF ~IsDict(profiles)
                   THEN \* len() of a number, .items() of a list
                        Raised("list_profiles", <<>>,
                               IF profiles.ty = "list" THEN "AttributeError" ELSE "TypeError",
                               <<>>)
                 ELSE Returned("list_profiles", <<>>, PyNone,
                               <<"[*] Saved Profiles">> \o sorted(Keys(profiles)))
      /\ UNCHANGED <<config_dir, profiles_file, active_file, now, disk>>

\* del profiles[name], with every other profile dropped as well
remove_profile_all(profiles, name) == EmptyDict

\* del profiles[name]
remove_profile(profiles, name) == Del(profiles, name)

delete_profile(name) ==
  LET profiles == load_profiles(profiles_file)
      args     == [name |-> name]
  IN  IF ~CanContain(profiles)
        THEN /\ call' = Raised("delete_profile", args, "TypeError", <<>>)
             /\ UNCHANGED <<config_dir, profiles_file, active_file, now, disk>>
      ELSE IF ~In(name, profiles)
        THEN /\ call' = Returned("delete_profile", args, PyBool(FALSE), <<"[X] not found">>)
             /\ UNCHANGED <<config_dir, profiles_file, active_file, now, disk>>
      ELSE IF ~IsDict(profiles)
        THEN \* del profiles[name] on a list
             /\ call' = Raised("delete_profile", args, "TypeError", <<>>)
             /\ UNCHANGED <<config_dir, profiles_file, active_file, now, disk>>
      ELSE /\ profiles_file' = save_profiles(remove_profile(profiles, name))
           /\ config_dir' = TRUE
           /\ call' = Returned("delete_profile", args, PyBool(TRUE), <<"[OK] deleted">>)
           /\ UNCHANGED <<active_file, now, disk>>

\* int(v): an int is itself, a bool is 0 or 1, and a string is read as a
\* decimal number; Numerals are the strings of the model that int() reads
Numerals == << <<"8080", 8080>>, <<"80", 80>>, <<"0", 0>>, <<"70000", 70000>> >>
CanInt(v) ==
  \/ v.ty \in {"int", "bool"}
  \/ v.ty = "str" /\ \E i \in 1..Len(Numerals) : Numerals[i][1] = v.s
int_error(v) == IF v.ty = "str" THEN "ValueError" ELSE "TypeError"
int(v) ==
  CASE v.ty = "int"  -> v
    [] v.ty = "bool" -> PyInt(IF v.b THEN 1 ELSE 0)
    [] v.ty = "str"  -> PyInt(Numerals[CHOOSE i \in 1..Len(Numerals) : Numerals[i][1] = v.s][2])

new_forward(local_port, remote_port, remote_host, forward_type) ==
  PyDict(<< <<"type", forward_type>>, <<"local_port", local_port>>,
            <<"remote_port", remote_port>>, <<"remote_host", remote_host>> >>)

\* the forward put first instead of last
append_forward_first(profile, forward) ==
  LET with == IF Has(profile, "forwards") THEN profile
              ELSE Set(profile, "forwards", EmptyList)
  IN  Set(with, "forwards", PyList(<<forward>> \o Get(with, "forwards").xs))

\* the forward alone, the earlier ones lost
append_forward_only(profile, forward) == Set(profile, "forwards", PyList(<<forward>>))

\* profiles[profile_name]['forwards'].append(forward), the list made if missing
append_forward(profile, forward) ==
  LET with == IF Has(profile, "forwards") THEN profile
              ELSE Set(profile, "forwards", EmptyList)
  IN  Set(with, "forwards", PyList(Append(Get(with, "forwards").xs, forward)))

add_forward(profile_name, local_port, remote_port, remote_host, forward_type) ==
  LET profiles == load_profiles(profiles_file)
      args     == [name |-> profile_name, local_port |-> local_port,
                   remote_port |-> remote_port, remote_host |-> remote_host,
                   forward_type |-> forward_type]
      forward  == new_forward(int(local_port), int(remote_port), remote_host, forward_type)
  IN  IF ~CanContain(profiles)
        THEN /\ call' = Raised("add_forward", args, "TypeError", <<>>)
             /\ UNCHANGED <<config_dir, profiles_file, active_file, now, disk>>
      ELSE IF ~In(profile_name, profiles)
        THEN /\ call' = Returned("add_forward", args, PyBool(FALSE), <<"[X] not found">>)
             /\ UNCHANGED <<config_dir, profiles_file, active_file, now, disk>>
      ELSE IF ~IsDict(profiles)
        THEN \* profiles[profile_name] on a list
             /\ call' = Raised("add_forward", args, "TypeError", <<>>)
             /\ UNCHANGED <<config_dir, profiles_file, active_file, now, disk>>
      ELSE IF ~CanInt(local_port) \/ ~CanInt(remote_port)
        THEN \* int() of a string that is no number, or of None
             /\ call' = Raised("add_forward", args,
                               IF ~CanInt(local_port) THEN int_error(local_port)
                                                      ELSE int_error(remote_port), <<>>)
             /\ UNCHANGED <<config_dir, profiles_file, active_file, now, disk>>
      ELSE LET profile == Get(profiles, profile_name)
               grown   == append_forward(profile, forward)
           IN  /\ Len(GetDefault(profile, "forwards", EmptyList).xs) < MaxForwards
               /\ profiles_file' = save_profiles(Set(profiles, profile_name, grown))
               /\ config_dir' = TRUE
               /\ call' = Returned("add_forward", args, PyBool(TRUE), <<"[OK] added">>)
               /\ UNCHANGED <<active_file, now, disk>>

(***************************************************************************)
(* CONNECTION MANAGEMENT                                                   *)
(***************************************************************************)
HomeKey     == "~/.ssh/id_rsa"
HomeKeyPath == "/home/user/.ssh/id_rsa"

\* os.path.expanduser on the paths of the model
expanduser(path) == IF path = HomeKey THEN HomeKeyPath ELSE path

\* the -L / -R pair of one forward, with the remote forward's ports not swapped
forward_flags_unswapped(fwd) ==
  LET fwd_type    == GetDefault(fwd, "type", PyStr("local"))
      local       == Get(fwd, "local_port")
      remote      == Get(fwd, "remote_port")
      remote_host == GetDefault(fwd, "remote_host", PyStr("localhost"))
  IN  <<IF fwd_type = PyStr("local") THEN "-L" ELSE "-R",
        str(local) \o ":" \o str(remote_host) \o ":" \o str(remote)>>

\* the -L / -R pair of one forward
forward_flags(fwd) ==
  LET fwd_type    == GetDefault(fwd, "type", PyStr("local"))
      local       == Get(fwd, "local_port")
      remote      == Get(fwd, "remote_port")
      remote_host == GetDefault(fwd, "remote_host", PyStr("localhost"))
  IN  IF fwd_type = PyStr("local")
        THEN <<"-L", str(local) \o ":" \o str(remote_host) \o ":" \o str(remote)>>
        ELSE <<"-R", str(remote) \o ":" \o str(remote_host) \o ":" \o str(local)>>

RECURSIVE forwards_flags(_, _)
forwards_flags(xs, i) ==
  IF i > Len(xs) THEN <<>> ELSE forward_flags(xs[i]) \o forwards_flags(xs, i + 1)

\* the -p pair
port_option(profile) ==
  IF GetDefault(profile, "port", PyInt(22)) # PyInt(22)
    THEN <<"-p", str(Get(profile, "port"))>>
    ELSE <<>>

\* the -i pair, without the look at the disk
key_option_unchecked(profile, on_disk) ==
  IF Has(profile, "key") /\ Truthy(Get(profile, "key"))
    THEN <<"-i", expanduser(Get(profile, "key").s)>>
    ELSE <<>>

\* the -i pair, on_disk being the paths that exist
key_option(profile, on_disk) ==
  IF Has(profile, "key") /\ Truthy(Get(profile, "key"))
    THEN LET key_path == expanduser(Get(profile, "key").s)
         IN  IF key_path \in on_disk THEN <<"-i", key_path>> ELSE <<>>
    ELSE <<>>

\* build_ssh_command(profile)
build_ssh_command(profile, on_disk) ==
  LET forwards == GetDefault(profile, "forwards", EmptyList)
  IN  <<"ssh">> \o port_option(profile) \o key_option(profile, on_disk)
        \o forwards_flags(forwards.xs, 1)
        \o <<str(Get(profile, "user")) \o "@" \o str(Get(profile, "host"))>>

\* What the client does once subprocess is asked to start it.  subprocess.run
\* and subprocess.Popen raise OSError when the executable cannot be started
\* (the POSIX branch; the Windows branch goes through the shell); a client
\* that Popen started may run on or exit at once, which connect does not see.
RunOutcomes   == {"exit_zero", "exit_nonzero", "interrupt", "oserror"}
PopenOutcomes == {"running", "exits_at_once", "oserror"}

\* what connect prints before it starts the client
ConnectOut == <<"[*] Connecting", "[>] Command">>

\* the profile is not stored, and connect returns True all the same
connect_not_found_true(args) ==
  /\ call' = Returned("connect", args, PyBool(TRUE),
                      <<"[X] not found", "Available profiles:">>)
  /\ UNCHANGED <<config_dir, profiles_file, active_file, now, disk>>

\* the profile is not stored: report it, list the names, return False
connect_not_found(args) ==
  /\ call' = Returned("connect", args, PyBool(FALSE),
                      <<"[X] not found", "Available profiles:">>)
  /\ UNCHANGED <<config_dir, profiles_file, active_file, now, disk>>

\* the record of a background connection, without its start time
active_record_no_start(t, profile) == PyDict(<< <<"profile", profile>> >>)

\* the record of a background connection, the profile taken as it was
\* before this launch stamped it
active_record_unstamped(t, profile) ==
  PyDict(<< <<"started", isoformat(t)>>, <<"profile", Set(profile, "last_used", PyNone)>> >>)

\* the record of a background connection
active_record(t, profile) ==
  PyDict(<< <<"started", isoformat(t)>>, <<"profile", profile>> >>)

\* the profile left as it is, no use recorded
stamp_last_used_skipped(profile, t) == profile

\* profile['last_used'] = datetime.now().isoformat()
stamp_last_used(profile, t) == Set(profile, "last_used", isoformat(t))

connect(profile_name, background, outcome) ==
  LET profiles == load_profiles(profiles_file)
      args     == [name |-> profile_name, background |-> background, outcome |-> outcome]
  IN  IF ~CanContain(profiles)
        THEN /\ call' = Raised("connect", args, "TypeError", <<>>)
             /\ UNCHANGED <<config_dir, profiles_file, active_file, now, disk>>
      ELSE IF ~In(profile_name, profiles)
        THEN connect_not_found(args)
      ELSE IF ~IsDict(profiles)
        THEN /\ call' = Raised("connect", args, "TypeError", <<>>)
             /\ UNCHANGED <<config_dir, profiles_file, active_file, now, disk>>
      ELSE
        LET cmd     == build_ssh_command(Get(profiles, profile_name), disk)
            profile == stamp_last_used(Get(profiles, profile_name), now)
            active  == load_active(active_file)
            record  == active_record(now, profile)
        IN  /\ profiles_file' = save_profiles(Set(profiles, profile_name, profile))
            /\ config_dir' = TRUE
            /\ UNCHANGED <<now, disk>>
            /\ IF background
                 THEN IF outcome = "oserror"
                        THEN \* subprocess.Popen raises and nothing catches it
                             /\ call' = [Raised("connect", args, "OSError", ConnectOut)
                                           EXCEPT !.cmd = cmd]
                             /\ UNCHANGED active_file
                      ELSE IF ~IsDict(active)
                        THEN \* active[profile_name] = ... on a list or a number
                             /\ call' = Launched(Raised("connect", args, "TypeError",
                                                        Append(ConnectOut, "[OK] started")),
                                                 cmd)
                             /\ UNCHANGED active_file
                      ELSE /\ active_file' = save_active(Set(active, profile_name, record))
                           /\ call' = Launched(Returned("connect", args, PyBool(TRUE),
                                                        Append(ConnectOut, "[OK] started")),
                                               cmd)
                 ELSE /\ UNCHANGED active_file
                      /\ IF outcome = "oserror"
                           THEN \* subprocess.run raises: except Exception
                                call' = [Returned("connect", args, PyBool(FALSE),
                                                  Append(ConnectOut, "[X] Error"))
                                           EXCEPT !.cmd = cmd]
                         ELSE IF outcome = "interrupt"
                           THEN \* except KeyboardInterrupt
                                call' = Launched(Returned("connect", args, PyBool(TRUE),
                                                          Append(ConnectOut, "[OK] closed")),
                                                 cmd)
                         ELSE \* the client exits, with whatever status
                              call' = Launched(Returned("connect", args, PyBool(TRUE),
                                                        ConnectOut), cmd)

\* show_active(): prints the records in stored order, changes nothing and
\* returns None
show_active ==
  LET active == load_active(active_file)
  IN  /\ call' = IF ~Truthy(active)
                   THEN Returned("show_active", <<>>, PyNone,
                                 <<"No active background connections.">>)
                 ELSE IF ~IsDict(active)
                   THEN Raised("show_active", <<>>,
                               IF active.ty = "list" THEN "AttributeError" ELSE "TypeError",
                               <<>>)
                 ELSE Returned("show_active", <<>>, PyNone,
                               <<"[*] Active Connections">>
                                 \o [i \in 1..Len(active.kv) |-> active.kv[i][1]])
      /\ UNCHANGED <<config_dir, profiles_file, active_file, now, disk>>

(***************************************************************************)
(* CLI INTERFACE                                                           *)
(***************************************************************************)
\* A connection string is the sequence of its parts between '@' signs:
\* <<"bob", "example.com">> is "bob@example.com", <<"invalid">> is "invalid".
RECURSIVE join_at(_, _)
join_at(parts, i) ==
  IF i > Len(parts) THEN ""
  ELSE IF i = Len(parts) THEN parts[i]
  ELSE parts[i] \o "@" \o join_at(parts, i + 1)

\* '@' in connection, with every string taken to hold one
has_separator_always(connection) == TRUE

\* '@' in connection
has_separator(connection) == Len(connection) > 1

\* connection.split('@', 1)
split_at(connection) ==
  IF Len(connection) > 1 THEN <<connection[1], join_at(connection, 2)>>
  ELSE <<join_at(connection, 1)>>

\* the value main() returns once the command's function has ended as c
\* tells: 0 after the dispatch, 130 and 1 from the two except clauses
main_result(c) ==
  IF c.exc = "" THEN PyInt(0)
  ELSE IF c.exc = "KeyboardInterrupt" THEN PyInt(130)
  ELSE PyInt(1)

\* main() with sys.argv parsed into argv; outcome is what the ssh client does
\* when the command starts one, and interrupted tells that the operator's
\* interrupt arrives as the command's function begins
main(argv, outcome, interrupted) ==
  /\ IF argv.command = ""
       THEN /\ call' = Returned("main", argv, PyNone, <<"usage">>)
            /\ exit_code' = PyInt(0)
            /\ UNCHANGED <<config_dir, profiles_file, active_file, now, disk>>
     ELSE IF argv.command = "add" /\ ~has_separator(argv.connection)
       THEN /\ call' = Returned("main", argv, PyNone,
                                 <<"[X] Connection must be in format: user@host">>)
            /\ exit_code' = PyInt(1)
            /\ UNCHANGED <<config_dir, profiles_file, active_file, now, disk>>
     ELSE /\ IF argv.command = "add" /\ Len(split_at(argv.connection)) # 2
               THEN \* user, host = ... does not unpack
                    /\ call' = Raised("main", argv, "ValueError", <<"[X] Error">>)
                    /\ UNCHANGED <<config_dir, profiles_file, active_file, now, disk>>
             ELSE IF interrupted
               THEN /\ call' = Raised("main", argv, "KeyboardInterrupt",
                                      <<"Interrupted by user">>)
                    /\ UNCHANGED <<config_dir, profiles_file, active_file, now, disk>>
             ELSE IF argv.command = "add"
               THEN add_profile(argv.name, PyStr(split_at(argv.connection)[2]),
                                PyStr(split_at(argv.connection)[1]), argv.port, argv.key,
                                PyNone)
             ELSE IF argv.command = "list" THEN list_profiles
             ELSE IF argv.command = "delete" THEN delete_profile(argv.name)
             ELSE IF argv.command = "forward"
               THEN add_forward(argv.profile, argv.local_port, argv.remote_port, argv.host,
                                IF argv.remote THEN PyStr("remote") ELSE PyStr("local"))
             ELSE IF argv.command = "connect"
               THEN connect(argv.name, argv.background, outcome)
             ELSE show_active
          /\ exit_code' = main_result(call')
  /\ UNCHANGED running

(***************************************************************************)
(* The environment: time passes, the key file comes and goes, and a store  *)
(* file is overwritten from outside the program.                           *)
(***************************************************************************)
Env(op) == Returned(op, <<>>, PyNone, <<>>)

Tick ==
  /\ now < MaxClock
  /\ now' = now + 1
  /\ call' = Env("tick")
  /\ UNCHANGED <<config_dir, profiles_file, active_file, disk>>
  /\ Direct

ToggleKeyFile ==
  /\ disk' = IF HomeKeyPath \in disk THEN disk \ {HomeKeyPath} ELSE disk \cup {HomeKeyPath}
  /\ call' = [call EXCEPT !.op = "toggle_key_file"]   \* the last command built is kept
  /\ UNCHANGED <<config_dir, profiles_file, active_file, now>>
  /\ Direct

\* texts that json.load rejects
BadTexts ==
  { <<Word("invalid"), Word("json"), Word("content")>>,
    <<>>,
    <<LBrace, PyStr("s1"), Colon, LBrace, PyStr("host"), Colon>>,
    <<LBrace, RBrace, RBrace>> }

\* texts that json.load accepts and that are no object: [], ["s1"], 5, null
OtherTexts ==
  { <<LBrack, RBrack>>,
    <<LBrack, PyStr("s1"), RBrack>>,
    <<PyInt(5)>>,
    <<PyNone>> }

WriteProfilesFile(text) ==
  /\ profiles_file' = FileOf(text)
  /\ config_dir' = TRUE
  /\ call' = Env("write_profiles_file")
  /\ UNCHANGED <<active_file, now, disk>>
  /\ Direct

WriteActiveFile(text) ==
  /\ active_file' = FileOf(text)
  /\ config_dir' = TRUE
  /\ call' = Env("write_active_file")
  /\ UNCHANGED <<profiles_file, now, disk>>
  /\ Direct

\* a bare call of load_profiles() / load_active()
LoadProfiles ==
  /\ call' = Returned("load_profiles", <<>>, load_profiles(profiles_file), <<>>)
  /\ UNCHANGED <<config_dir, profiles_file, active_file, now, disk>>
  /\ Direct

LoadActive ==
  /\ call' = Returned("load_active", <<>>, load_active(active_file), <<>>)
  /\ UNCHANGED <<config_dir, profiles_file, active_file, now, disk>>
  /\ Direct

(***************************************************************************)
(* The inputs of the calls.                                                *)
(***************************************************************************)
LocalForward  == new_forward(PyInt(8080), PyInt(80), PyStr("localhost"), PyStr("local"))
RemoteForward == new_forward(PyInt(3000), PyInt(3001), PyStr("db.internal"), PyStr("remote"))
Forwards      == {LocalForward, RemoteForward}

Names == {"s1", "s2"}

\* the calls of add_profile
AddBasic ==
  [name |-> "s1", host |-> PyStr("example.com"), user |-> PyStr("bob"),
   port |-> PyInt(22), key |-> PyNone, forwards |-> PyNone]
AddFull ==
  [name |-> "s1", host |-> PyStr("host.com"), user |-> PyStr("admin"),
   port |-> PyInt(2222), key |-> PyStr(HomeKey), forwards |-> PyList(<<LocalForward>>)]
AddOther ==
  [name |-> "s2", host |-> PyStr("example.com"), user |-> PyStr("bob"),
   port |-> PyInt(2222), key |-> PyStr(""), forwards |-> EmptyList]
AddProfileCalls == {AddBasic, AddFull, AddOther}

\* the profiles that add_forward is called on
ForwardNames == {"s1"}

\* the invocations of the tool that may run side by side, none of them started
Procs       == {1, 2}
Idle        == [pc |-> "idle"]
NoneRunning == [p \in Procs |-> Idle]

Init ==
  /\ config_dir = FALSE
  /\ profiles_file = NoFile
  /\ active_file = NoFile
  /\ now = 1
  /\ disk = {HomeKeyPath}
  /\ call = Env("init")
  /\ exit_code = PyNone
  /\ running = NoneRunning

AddProfile ==
  /\ \E a \in AddProfileCalls :
       add_profile(a.name, a.host, a.user, a.port, a.key, a.forwards)
  /\ Direct

DeleteProfile == (\E name \in Names : delete_profile(name)) /\ Direct

AddForwardOf(forwards) ==
  /\ \E name \in ForwardNames, f \in forwards :
       add_forward(name, Get(f, "local_port"), Get(f, "remote_port"),
                   Get(f, "remote_host"), Get(f, "type"))
  /\ Direct

AddForward      == AddForwardOf(Forwards)
AddLocalForward == AddForwardOf({LocalForward})

\* the profiles that connect is called on in both modes; the second is never stored
ConnectNames == {"s1", "nonexistent"}

ConnectForeground ==
  /\ \E name \in ConnectNames, outcome \in RunOutcomes : connect(name, FALSE, outcome)
  /\ Direct

ConnectAndExit == (\E name \in Names : connect(name, FALSE, "exit_zero")) /\ Direct

ConnectBackground ==
  /\ \E name \in ConnectNames, outcome \in PopenOutcomes : connect(name, TRUE, outcome)
  /\ Direct

\* load_profiles() and build_ssh_command on a stored profile, as the tests do
BuildStored ==
  \E name \in Names :
    LET profiles == load_profiles(profiles_file)
    IN  /\ IsDict(profiles) /\ Has(profiles, name)
        /\ call' = [Returned("build_ssh_command", [name |-> name], PyNone, <<>>)
                      EXCEPT !.cmd = build_ssh_command(Get(profiles, name), disk)]
        /\ UNCHANGED <<config_dir, profiles_file, active_file, now, disk>>
        /\ Direct

WriteRawProfiles == \E text \in BadTexts : WriteProfilesFile(text)
WriteRawActive   == \E text \in BadTexts : WriteActiveFile(text)

\* The life of the profile store: add, delete, forward and use, as time passes.
Next ==
  \/ AddProfile
  \/ DeleteProfile
  \/ AddLocalForward
  \/ ConnectAndExit
  \/ Tick

Spec == Init /\ [][Next]_vars

\* Forwards of both kinds appended to a profile, and the command built from it.
NextForward ==
  \/ AddProfile
  \/ DeleteProfile
  \/ AddForward
  \/ BuildStored

SpecForward == Init /\ [][NextForward]_vars

(***************************************************************************)
(* The command builder alone: one stored profile drawn from BuildProfiles, *)
(* built again and again while the key file comes and goes.                *)
(***************************************************************************)
\* a forward that leaves 'type' and 'remote_host' to their defaults
BareForward == PyDict(<< <<"local_port", PyInt(5432)>>, <<"remote_port", PyInt(5432)>> >>)

BuildPorts    == {PyNone, PyInt(22), PyInt(2222)}      \* PyNone: no 'port' entry
BuildKeys     == {PyBool(FALSE), PyNone, PyStr(""), PyStr(HomeKey), PyStr("/missing/key")}
                                                       \* PyBool(FALSE): no 'key' entry
BuildForwards == {PyNone, EmptyList, PyList(<<LocalForward>>), PyList(<<RemoteForward>>),
                  PyList(<<LocalForward, RemoteForward>>),
                  PyList(<<RemoteForward, LocalForward>>),
                  PyList(<<BareForward, LocalForward>>)}  \* PyNone: no 'forwards' entry

build_profile(port, key, forwards) ==
  LET base  == PyDict(<< <<"host", PyStr("example.com")>>, <<"user", PyStr("bob")>> >>)
      p1    == IF port = PyNone THEN base ELSE Set(base, "port", port)
      p2    == IF key = PyBool(FALSE) THEN p1 ELSE Set(p1, "key", key)
  IN  IF forwards = PyNone THEN p2 ELSE Set(p2, "forwards", forwards)

BuildProfiles ==
  {build_profile(port, key, forwards) :
     port \in BuildPorts, key \in BuildKeys, forwards \in BuildForwards}

InitBuild ==
  /\ config_dir = TRUE
  /\ \E p \in BuildProfiles : profiles_file = save_profiles(PyDict(<< <<"s1", p>> >>))
  /\ active_file = NoFile
  /\ now = 1
  /\ disk \in {{}, {HomeKeyPath}}
  /\ call = Env("init")
  /\ exit_code = PyNone
  /\ running = NoneRunning

NextBuild ==
  \/ BuildStored
  \/ ToggleKeyFile

SpecBuild == InitBuild /\ [][NextBuild]_vars

(***************************************************************************)
(* The two stores alone: mappings saved and loaded, files overwritten from *)
(* outside.                                                                *)
(***************************************************************************)
\* the mappings of the tests, what the operations store, and every profile
\* of BuildProfiles stored alone
ProfileMappings ==
  {PyDict(<< <<"p", p>> >>) : p \in BuildProfiles} \cup
  { EmptyDict,
    PyDict(<< <<"test1", PyDict(<< <<"host", PyStr("example.com")>>,
                                   <<"user", PyStr("testuser")>>,
                                   <<"port", PyInt(22)>>,
                                   <<"forwards", EmptyList>> >>)>> >>),
    PyDict(<< <<"s1", new_profile(1, AddFull.host, AddFull.user, AddFull.port,
                                  AddFull.key, AddFull.forwards)>>,
              <<"s2", new_profile(2, AddOther.host, AddOther.user, AddOther.port,
                                  AddOther.key, AddOther.forwards)>> >>) }

ActiveMappings ==
  { EmptyDict,
    PyDict(<< <<"conn1", PyDict(<< <<"started", isoformat(1)>>,
                                   <<"profile", PyDict(<< <<"host", PyStr("test.com")>>,
                                                          <<"user", PyStr("user")>> >>)>>
                                >>)>> >>),
    PyDict(<< <<"s1", PyDict(<< <<"started", isoformat(2)>>,
                                <<"profile",
                                  Set(new_profile(1, AddFull.host, AddFull.user,
                                                  AddFull.port, AddFull.key,
                                                  AddFull.forwards),
                                      "last_used", isoformat(2))>> >>)>> >>) }

SaveProfiles ==
  \E m \in ProfileMappings :
    /\ profiles_file' = save_profiles(m)
    /\ config_dir' = TRUE
    /\ call' = Returned("save_profiles", [mapping |-> m], PyNone, <<>>)
    /\ UNCHANGED <<active_file, now, disk>>
    /\ Direct

SaveActive ==
  \E m \in ActiveMappings :
    /\ active_file' = save_active(m)
    /\ config_dir' = TRUE
    /\ call' = Returned("save_active", [mapping |-> m], PyNone, <<>>)
    /\ UNCHANGED <<profiles_file, now, disk>>
    /\ Direct

NextCodec ==
  \/ SaveProfiles
  \/ SaveActive
  \/ LoadProfiles
  \/ LoadActive
  \/ WriteRawProfiles
  \/ WriteRawActive

SpecCodec == Init /\ [][NextCodec]_vars

(***************************************************************************)
(* Connections: profiles added and deleted, clients started in the         *)
(* foreground and in the background.                                       *)
(***************************************************************************)
AddConnectProfile ==
  /\ \E a \in {AddFull, AddOther} :
       add_profile(a.name, a.host, a.user, a.port, a.key, a.forwards)
  /\ Direct

NextConnect ==
  \/ AddConnectProfile
  \/ DeleteProfile
  \/ ConnectForeground
  \/ ConnectBackground
  \/ Tick

SpecConnect == Init /\ [][NextConnect]_vars

\* Profiles added and used, in both modes, as time passes.
NextUse ==
  \/ AddConnectProfile
  \/ ConnectForeground
  \/ ConnectBackground
  \/ Tick

SpecUse == Init /\ [][NextUse]_vars

(***************************************************************************)
(* The Active-Connection Store under every operation: profiles added,      *)
(* changed and deleted, listed and shown, and clients started for both     *)
(* names, all at one time of the clock.                                    *)
(***************************************************************************)
ListProfiles == list_profiles /\ Direct
ShowActive   == show_active /\ Direct

ConnectBackgroundAny ==
  /\ \E name \in Names, outcome \in PopenOutcomes : connect(name, TRUE, outcome)
  /\ Direct

NextActive ==
  \/ AddConnectProfile
  \/ DeleteProfile
  \/ AddLocalForward
  \/ ListProfiles
  \/ ShowActive
  \/ ConnectAndExit
  \/ ConnectBackgroundAny

SpecActive == Init /\ [][NextActive]_vars

(***************************************************************************)
(* One profile and its record as time passes: the profile is added again,  *)
(* given forwards, used and deleted after a client was started for it.     *)
(***************************************************************************)
AddOne ==
  /\ \E a \in {AddBasic, AddFull} :
       add_profile(a.name, a.host, a.user, a.port, a.key, a.forwards)
  /\ Direct

DeleteOne == delete_profile("s1") /\ Direct

ConnectOneForeground ==
  /\ \E outcome \in {"exit_zero", "interrupt"} : connect("s1", FALSE, outcome)
  /\ Direct

ConnectOneBackground ==
  /\ \E outcome \in PopenOutcomes : connect("s1", TRUE, outcome)
  /\ Direct

NextSnapshot ==
  \/ AddOne
  \/ DeleteOne
  \/ AddLocalForward
  \/ ConnectOneForeground
  \/ ConnectOneBackground
  \/ Tick

SpecSnapshot == Init /\ [][NextSnapshot]_vars

(***************************************************************************)
(* A damaged profile store: the file is overwritten from outside with text *)
(* that is no JSON or no JSON object, and the operations run on it.        *)
(***************************************************************************)
WriteOtherProfiles == \E text \in OtherTexts : WriteProfilesFile(text)

NextDamaged ==
  \/ WriteRawProfiles
  \/ WriteOtherProfiles
  \/ LoadProfiles
  \/ AddProfile
  \/ DeleteProfile
  \/ AddLocalForward
  \/ ConnectAndExit

SpecDamaged == Init /\ [][NextDamaged]_vars

(***************************************************************************)
(* Two invocations of the tool side by side.  add_profile reads the file   *)
(* (line 82), builds the record and puts it into the mapping it read       *)
(* (lines 84-100), and writes that mapping (line 101); another invocation  *)
(* may read or write the file between the two accesses.                    *)
(***************************************************************************)
\* add_profile up to line 100 in invocation p
add_profile_load(p, a) ==
  LET profiles == load_profiles(profiles_file)
      profile  == new_profile(now, a.host, a.user, a.port, a.key, a.forwards)
  IN  /\ running[p].pc = "idle"
      /\ IsDict(profiles)
      /\ running' = [running EXCEPT ![p] = [pc |-> "loaded", args |-> a,
                                            profiles |-> put_profile(profiles, a.name, profile)]]
      /\ call' = Returned("add_profile_load", [proc |-> p, name |-> a.name], PyNone, <<>>)
      /\ UNCHANGED <<config_dir, profiles_file, active_file, now, disk, exit_code>>

\* add_profile from line 101 on in invocation p
add_profile_save(p) ==
  /\ running[p].pc = "loaded"
  /\ profiles_file' = save_profiles(running[p].profiles)
  /\ config_dir' = TRUE
  /\ running' = [running EXCEPT ![p].pc = "done"]
  /\ call' = Returned("add_profile_save", [proc |-> p, name |-> running[p].args.name],
                      PyNone, <<"[OK] saved">>)
  /\ UNCHANGED <<active_file, now, disk, exit_code>>

AddProfileLoad == \E p \in Procs, a \in AddProfileCalls : add_profile_load(p, a)
AddProfileSave == \E p \in Procs : add_profile_save(p)

NextRace ==
  \/ AddProfileLoad
  \/ AddProfileSave
  \/ Tick

SpecRace == Init /\ [][NextRace]_vars

(***************************************************************************)
(* The process dies in save_profiles: add_profile runs up to line 101 and  *)
(* the save it starts is cut short at one of the places of Cuts, before    *)
(* the whole text is written.                                              *)
(***************************************************************************)
\* The cuts tried: nothing or the first tokens written, half of the text,
\* all but the last tokens.
Cuts == { <<"start", 0>>, <<"start", 1>>, <<"start", 2>>, <<"start", 3>>,
          <<"half", 0>>, <<"end", 2>>, <<"end", 1>> }

\* the number of tokens written at cut c of a text of n tokens
cut_at(c, n) ==
  CASE c[1] = "start" -> c[2]
    [] c[1] = "half"  -> n \div 2
    [] c[1] = "end"   -> n - c[2]

add_profile_killed(a, c, torn) ==
  LET profiles == load_profiles(profiles_file)
      changed  == put_profile(profiles, a.name,
                              new_profile(now, a.host, a.user, a.port, a.key, a.forwards))
  IN  /\ IsDict(profiles)
      /\ \E k \in {cut_at(c, Len(dumps(changed)))} :
           /\ k < Len(dumps(changed))
           /\ profiles_file' = cut_save(changed, k, torn)
           /\ call' = Raised("add_profile", [name |-> a.name, before |-> profiles, k |-> k],
                             "killed", <<>>)
      /\ config_dir' = TRUE
      /\ UNCHANGED <<active_file, now, disk>>

KilledInSave ==
  /\ \E a \in AddProfileCalls, c \in Cuts, torn \in BOOLEAN : add_profile_killed(a, c, torn)
  /\ Direct

NextKilled ==
  \/ AddProfile
  \/ DeleteProfile
  \/ AddLocalForward
  \/ LoadProfiles
  \/ KilledInSave

SpecKilled == Init /\ [][NextKilled]_vars

(***************************************************************************)
(* The command line: the tool run with the argument lists of Argvs.        *)
(***************************************************************************)
NoCommand == [command |-> ""]
CliAdd(name, connection, port, key) ==
  [command |-> "add", name |-> name, connection |-> connection, port |-> port, key |-> key]
CliDelete(name) == [command |-> "delete", name |-> name]
CliForward(profile, local_port, remote_port, host, remote) ==
  [command |-> "forward", profile |-> profile, local_port |-> local_port,
   remote_port |-> remote_port, host |-> host, remote |-> remote]
CliConnect(name, background) ==
  [command |-> "connect", name |-> name, background |-> background]

AddArgvs ==
  { CliAdd("s1", <<"bob", "example.com">>, PyInt(22), PyNone),
    CliAdd("s1", <<"admin", "host.com">>, PyInt(2222), PyStr(HomeKey)),
    CliAdd("s1", <<"invalid">>, PyInt(22), PyNone),
    CliAdd("s2", <<"invalid">>, PyInt(2222), PyStr(HomeKey)),
    CliAdd("s1", <<"bob", "example.com", "tunnel">>, PyInt(22), PyNone) }

OtherArgvs ==
  { NoCommand, [command |-> "list"], [command |-> "active"],
    CliDelete("s1"), CliDelete("nonexistent"),
    CliForward("s1", PyInt(8080), PyInt(80), PyStr("localhost"), FALSE),
    CliForward("nonexistent", PyInt(3000), PyInt(3001), PyStr("db.internal"), TRUE),
    CliConnect("s1", FALSE), CliConnect("s1", TRUE), CliConnect("nonexistent", FALSE) }

MainAdd == \E argv \in AddArgvs, interrupted \in BOOLEAN : main(argv, "exit_zero", interrupted)

Main ==
  \E argv \in OtherArgvs, outcome \in {"exit_zero", "oserror"}, interrupted \in BOOLEAN :
    main(argv, outcome, interrupted)

NextCLI ==
  \/ MainAdd
  \/ Main

SpecCLI == Init /\ [][NextCLI]_vars

(***************************************************************************)
(* Forwards with ports of every kind: add_forward called with numbers in   *)
(* and out of the range of ports, with numerals and with other strings,    *)
(* and the forward command run with such numbers.                          *)
(***************************************************************************)
\* <<local_port, remote_port, forward_type>> of the calls of add_forward
PortCalls ==
  { <<PyInt(8080), PyInt(80), PyStr("local")>>,
    <<PyStr("8080"), PyStr("80"), PyStr("remote")>>,
    <<PyInt(0), PyInt(70000), PyStr("local")>>,
    <<PyInt(-1), PyStr("70000"), PyStr("remote")>>,
    <<PyStr("http"), PyInt(80), PyStr("local")>>,
    <<PyInt(8080), PyNone, PyStr("local")>> }

AddForwardPorts ==
  /\ \E c \in PortCalls : add_forward("s1", c[1], c[2], PyStr("localhost"), c[3])
  /\ Direct

ForwardArgvs ==
  { CliForward("s1", PyInt(8080), PyInt(80), PyStr("localhost"), FALSE),
    CliForward("s1", PyInt(0), PyInt(70000), PyStr("localhost"), FALSE),
    CliForward("s1", PyInt(3000), PyInt(65536), PyStr("db.internal"), TRUE) }

MainForward == \E argv \in ForwardArgvs : main(argv, "exit_zero", FALSE)

NextPorts ==
  \/ AddProfile
  \/ AddForwardPorts
  \/ MainForward

SpecPorts == Init /\ [][NextPorts]_vars

(***************************************************************************)
(* The claims.                                                             *)
(***************************************************************************)
Range(seq) == {seq[i] : i \in 1..Len(seq)}

\* the profiles stored now, and the profile the last call named
Stored       == load_profiles(profiles_file)
NamedProfile == Get(Stored, call.args.name)

\* The tokens the claim gives for a profile p.
HasPortOption(p) == Has(p, "port") /\ Get(p, "port") # PyInt(22)
HasUsableKey(p, on_disk) ==
  /\ Has(p, "key")
  /\ Get(p, "key").ty = "str"
  /\ Get(p, "key").s # ""
  /\ expanduser(Get(p, "key").s) \in on_disk
ForwardsOf(p) == IF Has(p, "forwards") THEN Get(p, "forwards").xs ELSE <<>>
IsLocal(f)  == ~Has(f, "type") \/ Get(f, "type") = PyStr("local")
HostOf(f)   == IF Has(f, "remote_host") THEN Get(f, "remote_host").s ELSE "localhost"
ExpectedPair(f) ==
  LET l == ToString(Get(f, "local_port").n)
      r == ToString(Get(f, "remote_port").n)
  IN  IF IsLocal(f) THEN <<"-L", l \o ":" \o HostOf(f) \o ":" \o r>>
                    ELSE <<"-R", r \o ":" \o HostOf(f) \o ":" \o l>>

IsCommandOf(cmd, p, on_disk) ==
  LET afterPort == 1 + (IF HasPortOption(p) THEN 2 ELSE 0)
      afterKey  == afterPort + (IF HasUsableKey(p, on_disk) THEN 2 ELSE 0)
      fw        == ForwardsOf(p)
  IN  /\ Len(cmd) = afterKey + 2 * Len(fw) + 1
      /\ cmd[1] = "ssh"
      /\ HasPortOption(p) => cmd[2] = "-p" /\ cmd[3] = ToString(Get(p, "port").n)
      /\ HasUsableKey(p, on_disk) =>
           cmd[afterPort + 1] = "-i" /\ cmd[afterPort + 2] = expanduser(Get(p, "key").s)
      /\ \A i \in 1..Len(fw) :
           <<cmd[afterKey + 2 * i - 1], cmd[afterKey + 2 * i]>> = ExpectedPair(fw[i])
      /\ cmd[Len(cmd)] = Get(p, "user").s \o "@" \o Get(p, "host").s

NoUsableKey(p, on_disk) ==
  \/ ~Has(p, "key")
  \/ Get(p, "key") = PyNone
  \/ Get(p, "key") = PyStr("")
  \/ Get(p, "key").ty = "str" /\ expanduser(Get(p, "key").s) \notin on_disk

\* C2 as stated: building is a pure function of the profile: whenever the
\* same stored profile is built again the same tokens come out, no store
\* changes, and "-i" is left out when the key is unset, empty or missing on disk.
C2_PureOfProfile ==
  [][ call'.op = "build_ssh_command" =>
        /\ UNCHANGED <<config_dir, profiles_file, active_file>>
        /\ (call.cmd # <<>> /\ call.args = call'.args) => call'.cmd = call.cmd
        /\ NoUsableKey(Get(Stored, call'.args.name), disk) => "-i" \notin Range(call'.cmd)
    ]_vars

\* C2 amended: building changes no store and no file on disk; built twice in
\* a row, with no change to the key file in between, the same stored profile
\* gives the same tokens; and "-i" is left out when the key is unset, empty
\* or missing on disk at build time.
C2_NoSideEffect ==
  [][ call'.op = "build_ssh_command" =>
        /\ UNCHANGED <<config_dir, profiles_file, active_file, disk>>
        /\ (call.op = "build_ssh_command" /\ call.args = call'.args) => call'.cmd = call.cmd
        /\ NoUsableKey(Get(Stored, call'.args.name), disk) => "-i" \notin Range(call'.cmd)
    ]_vars

\* a key that is stored and missing on disk, and a command without "-i"
C2_Witness ==
  /\ call.op = "build_ssh_command"
  /\ Has(NamedProfile, "key")
  /\ Get(NamedProfile, "key") = PyStr(HomeKey)
  /\ HomeKeyPath \notin disk
  /\ "-i" \notin Range(call.cmd)

StoredNext == load_profiles(profiles_file')

\* the -L/-R tokens of a command built from a profile with n forwards
FlagTokens(cmd, n) == SubSeq(cmd, Len(cmd) - 2 * n, Len(cmd) - 1)

RECURSIVE ExpectedPairs(_, _)
ExpectedPairs(fw, i) ==
  IF i > Len(fw) THEN <<>> ELSE ExpectedPair(fw[i]) \o ExpectedPairs(fw, i + 1)

\* the forward that a call of add_forward with these arguments stores
IsForwardOf(f, a) ==
  /\ Keys(f) = {"type", "local_port", "remote_port", "remote_host"}
  /\ Get(f, "type") = a.forward_type
  /\ Get(f, "local_port") = a.local_port
  /\ Get(f, "remote_port") = a.remote_port
  /\ Get(f, "remote_host") = a.remote_host

\* C3: every add_forward that succeeds leaves the stored forwards as they
\* were, followed by the new one, and the command built from the stored
\* profile then has the flag pairs it had before followed by the new
\* forward's pair; so N forwards appended in the order f1..fN are stored
\* after the earlier ones and emitted in that order.
C3_ForwardOrder ==
  [][ /\ (call'.op = "add_forward" /\ call'.ret = PyBool(TRUE)) =>
           \A before \in {Get(Stored, call'.args.name)},
              after \in {Get(StoredNext, call'.args.name)} :
             \A fwb \in {ForwardsOf(before)}, fwa \in {ForwardsOf(after)}, n \in {Len(ForwardsOf(before))} :
               /\ Len(fwa) = n + 1
               /\ SubSeq(fwa, 1, n) = fwb
               /\ IsForwardOf(fwa[n + 1], call'.args)
               /\ FlagTokens(build_ssh_command(after, disk), n + 1)
                    = FlagTokens(build_ssh_command(before, disk), n)
                        \o ExpectedPair(fwa[n + 1])
      /\ call'.op = "build_ssh_command" =>
           \A fw \in {ForwardsOf(Get(Stored, call'.args.name))} :
             FlagTokens(call'.cmd, Len(fw)) = ExpectedPairs(fw, 1)
    ]_vars

\* a remote and then a local forward appended to a profile added without
\* forwards, and the command built from it
C3_Witness ==
  /\ call.op = "build_ssh_command"
  /\ call.args.name = "s1"
  /\ Get(NamedProfile, "forwards") = PyList(<<RemoteForward, LocalForward>>)
  /\ call.cmd = <<"ssh", "-R", "3001:db.internal:3000", "-L", "8080:localhost:80",
                  "bob@example.com">>

\* every profile but name is the same before and after
OthersUnchanged(before, after, name) ==
  /\ Keys(after) \ {name} = Keys(before) \ {name}
  /\ \A other \in Keys(before) \ {name} : Get(after, other) = Get(before, other)

C5_Delete ==
  [][ call'.op = "delete_profile" =>
        \A name \in {call'.args.name}, before \in {Stored}, after \in {StoredNext} :
            /\ call'.exc = ""
            /\ call'.ret = PyBool(Has(before, name))
            /\ Has(before, name) =>
                 /\ ~Has(after, name)
                 /\ OthersUnchanged(before, after, name)
            /\ ~Has(before, name) =>
                 /\ UNCHANGED profiles_file
                 /\ after = before
                 /\ Len(after.kv) = Len(before.kv)
    ]_vars

\* s1 deleted, s2 still stored
C5_Witness ==
  /\ call.op = "delete_profile"
  /\ call.args.name = "s1"
  /\ call.ret = PyBool(TRUE)
  /\ Keys(Stored) = {"s2"}

\* a delete of a name that is not stored, with a profile in the store
C5_WitnessMissing ==
  /\ call.op = "delete_profile"
  /\ call.ret = PyBool(FALSE)
  /\ Stored # EmptyDict

\* C6: add_forward on a name that is not stored returns False and leaves
\* the store as it was; otherwise it returns True, the forwards of the
\* profile grow by one element at the end, its other fields and the other
\* profiles are unchanged, and the file holds the change.
C6_AddForward ==
  [][ call'.op = "add_forward" =>
        \A name \in {call'.args.name}, store \in {Stored}, next \in {StoredNext} :
            /\ call'.exc = ""
            /\ call'.ret = PyBool(Has(store, name))
            /\ ~Has(store, name) => UNCHANGED profiles_file /\ next = store
            /\ Has(store, name) =>
                 \A before \in {Get(store, name)}, after \in {Get(next, name)} :
                   \A fwb \in {ForwardsOf(before)}, fwa \in {ForwardsOf(after)},
                      n \in {Len(ForwardsOf(before))} :
                     /\ profiles_file'.exists
                     /\ loads(profiles_file'.text).ok
                     /\ Len(fwa) = n + 1
                     /\ SubSeq(fwa, 1, n) = fwb
                     /\ IsForwardOf(fwa[n + 1], call'.args)
                     /\ Keys(after) = Keys(before) \cup {"forwards"}
                     /\ \A k \in Keys(before) \ {"forwards"} : Get(after, k) = Get(before, k)
                     /\ OthersUnchanged(store, next, name)
    ]_vars

\* a forward appended to a profile that had one, with another profile stored
C6_Witness ==
  /\ call.op = "add_forward"
  /\ call.ret = PyBool(TRUE)
  /\ Has(Stored, "s2")
  /\ Get(Get(Stored, "s1"), "forwards") = PyList(<<LocalForward, RemoteForward>>)

\* C7: a mapping saved with save_profiles is the mapping load_profiles then
\* returns, field for field, and the same holds of save_active and
\* load_active.
C7_RoundTrip ==
  /\ call.op = "save_profiles" =>
       \A loaded \in {load_profiles(profiles_file)} :
         /\ PyEq(loaded, call.args.mapping)
         /\ loaded = call.args.mapping
  /\ call.op = "save_active" =>
       \A loaded \in {load_active(active_file)} :
         /\ PyEq(loaded, call.args.mapping)
         /\ loaded = call.args.mapping

\* two profiles with a key, a forward and an unset last_used were saved
C7_Witness ==
  /\ call.op = "save_profiles"
  /\ Keys(call.args.mapping) = {"s1", "s2"}
  /\ Get(Get(Stored, "s1"), "last_used") = PyNone
  /\ Get(Get(Stored, "s1"), "forwards") = PyList(<<LocalForward>>)
  /\ Get(Get(Stored, "s1"), "port") = PyInt(2222)

\* the file is absent or holds text that is no JSON
Unreadable(file) == ~file.exists \/ file.text \in BadTexts

\* C8: load_profiles and load_active return the empty mapping, raise
\* nothing and print nothing when the file is absent or its text does not
\* parse, and they leave the files as they are.
C8_LoadRecovers ==
  [][ /\ call'.op \in {"load_profiles", "load_active"} =>
           UNCHANGED <<config_dir, profiles_file, active_file>>
      /\ (call'.op = "load_profiles" /\ Unreadable(profiles_file)) =>
           call'.ret = EmptyDict /\ call'.exc = "" /\ call'.out = <<>>
      /\ (call'.op = "load_active" /\ Unreadable(active_file)) =>
           call'.ret = EmptyDict /\ call'.exc = "" /\ call'.out = <<>>
    ]_vars

\* a load of a profiles file cut off in the middle of an object
C8_Witness ==
  /\ call.op = "load_profiles"
  /\ profiles_file.exists
  /\ profiles_file.text = <<LBrace, PyStr("s1"), Colon, LBrace, PyStr("host"), Colon>>
  /\ call.ret = EmptyDict

ActiveStored     == load_active(active_file)
ActiveStoredNext == load_active(active_file')

\* C9: connect on a name that is not stored returns False, starts no client
\* and changes neither store, in the foreground and in the background.
C9_ConnectMissing ==
  [][ call'.op = "connect" =>
        \A before \in {Stored} :
          ~Has(before, call'.args.name) =>
            /\ call'.ret = PyBool(FALSE)
            /\ call'.exc = ""
            /\ ~call'.launched
            /\ UNCHANGED <<config_dir, profiles_file, active_file>>
    ]_vars

\* a background connect on a missing name, with a profile and a record stored
C9_Witness ==
  /\ call.op = "connect"
  /\ call.args.background
  /\ call.args.name = "nonexistent"
  /\ call.ret = PyBool(FALSE)
  /\ Has(Stored, "s2")
  /\ Has(ActiveStored, "s1")

\* a foreground connect on a missing name
C9_WitnessForeground ==
  /\ call.op = "connect"
  /\ ~call.args.background
  /\ call.args.name = "s1"
  /\ call.ret = PyBool(FALSE)
  /\ Keys(Stored) = {"s2"}

\* the record that a background connect leaves for the name: the start time
\* and the profile as it is stored after the call
IsRecordOf(record, t, profile) ==
  /\ Keys(record) = {"started", "profile"}
  /\ Get(record, "started") = isoformat(t)
  /\ Get(record, "profile") = profile

C11_ForegroundResult ==
  [][ (call'.op = "connect" /\ ~call'.args.background) =>
        \A before \in {Stored} :
          Has(before, call'.args.name) =>
            /\ call'.exc = ""
            /\ call'.args.outcome = "interrupt" => call'.ret = PyBool(TRUE)
            /\ call'.args.outcome \in {"oserror", "exit_nonzero"} =>
                 call'.ret = PyBool(FALSE)
    ]_vars

\* the last call started a client in the background for name
StartedInBackground(c, name) ==
  /\ c.op = "connect"
  /\ c.args.background
  /\ c.args.name = name
  /\ c.launched

\* the names that have a record in the text of the Active-Connection file
RecordedNames(file) ==
  IF ~file.exists THEN {}
  ELSE UNION {IF r.ok /\ IsDict(r.val) THEN Keys(r.val) ELSE {} : r \in {loads(file.text)}}

\* C12: under add, delete, forward, list, active and connect in both modes,
\* a name enters the Active-Connection Store only by a background connect on
\* a stored profile whose client was started; no name ever leaves it; and
\* every step other than a background connect leaves the store file as it is.
C12_ActiveNeverShrinks ==
  [][ \A before \in {RecordedNames(active_file)}, after \in {RecordedNames(active_file')} :
        /\ before \subseteq after
        /\ \A name \in after \ before :
             /\ StartedInBackground(call', name)
             /\ Has(Stored, name)
        /\ ~(call'.op = "connect" /\ call'.args.background) => UNCHANGED active_file
    ]_vars

\* both names are recorded and s1, deleted by the last call, is stored no more
C12_Witness ==
  /\ call.op = "delete_profile"
  /\ call.ret = PyBool(TRUE)
  /\ Keys(ActiveStored) = {"s1", "s2"}
  /\ ~Has(Stored, "s1")

\* C13: the record of a name is the profile as stored by the background
\* launch, with the last_used of that launch; no step but a background launch
\* of the same name changes it, whatever happens to the stored profile; a
\* new launch of the name overwrites it, and no name has two records.
C13_Snapshot ==
  [][ \A before \in {ActiveStored}, after \in {ActiveStoredNext} :
        /\ \A name \in Keys(before) :
             ~StartedInBackground(call', name) =>
               Has(after, name) /\ Get(after, name) = Get(before, name)
        /\ \A name \in Keys(after) :
             StartedInBackground(call', name) =>
               \A profile \in {Get(StoredNext, name)} :
                 /\ Get(Get(after, name), "profile") = profile
                 /\ Get(profile, "last_used") = isoformat(now)
                 /\ \A k \in Keys(profile) \ {"last_used"} :
                      Get(profile, k) = Get(Get(Stored, name), k)
        /\ Cardinality(Keys(after)) = Len(after.kv)
    ]_vars

\* a forward was added to s1 after its launch, and the record still has the
\* profile of the launch
C13_Witness ==
  /\ call.op = "add_forward"
  /\ call.ret = PyBool(TRUE)
  /\ Has(ActiveStored, "s1")
  /\ ForwardsOf(Get(Get(ActiveStored, "s1"), "profile")) = <<LocalForward>>
  /\ ForwardsOf(Get(Stored, "s1")) = <<LocalForward, LocalForward>>
  /\ Get(Get(Get(ActiveStored, "s1"), "profile"), "last_used") = isoformat(1)
  /\ now = 2

\* the profile is deleted and its record stays
C13_WitnessDeleted ==
  /\ call.op = "delete_profile"
  /\ call.ret = PyBool(TRUE)
  /\ ~Has(Stored, "s1")
  /\ Has(ActiveStored, "s1")

\* the last command was delete, forward or connect on a name that is not stored
NotFound(c) ==
  /\ c.op \in {"delete_profile", "add_forward", "connect"}
  /\ c.exc = ""
  /\ c.ret = PyBool(FALSE)
  /\ c.out[1] = "[X] not found"

\* C14: every run of the command line returns 0 on success, 1 on a handled
\* error and 130 on a top-level interrupt; delete, forward and connect on a
\* missing profile are reported and return a code other than 0.
C14_ExitCodes ==
  [][ /\ exit_code' \in {PyInt(0), PyInt(1), PyInt(130)}
      /\ call'.exc = "KeyboardInterrupt" <=> exit_code' = PyInt(130)
      /\ call'.exc \notin {"", "KeyboardInterrupt"} => exit_code' = PyInt(1)
      /\ NotFound(call') => exit_code' # PyInt(0)
      /\ (call'.op \in {"add_profile", "list_profiles", "show_active"} /\ call'.exc = "")
           => exit_code' = PyInt(0)
      /\ (call'.op \in {"delete_profile", "add_forward", "connect"}
            /\ call'.ret = PyBool(TRUE)) => exit_code' = PyInt(0)
    ]_vars

\* C15: the add command with a connection string without '@' reports the
\* error and returns 1, and neither store file is touched: the profiles
\* stored are those stored before, the named one included.
C15_AddWithoutSeparator ==
  [][ (call'.op = "main" /\ call'.args.command = "add" /\ Len(call'.args.connection) = 1) =>
        /\ exit_code' = PyInt(1)
        /\ call'.out = <<"[X] Connection must be in format: user@host">>
        /\ UNCHANGED <<config_dir, profiles_file, active_file>>
        /\ \A before \in {Stored}, after \in {StoredNext} :
             /\ after = before
             /\ Has(after, call'.args.name) <=> Has(before, call'.args.name)
    ]_vars

\* add s1 invalid, run while s1 is stored with a forward: s1 is as it was
C15_Witness ==
  /\ call.op = "main"
  /\ call.args = CliAdd("s1", <<"invalid">>, PyInt(22), PyNone)
  /\ exit_code = PyInt(1)
  /\ Has(Stored, "s1")
  /\ Get(Get(Stored, "s1"), "host") = PyStr("host.com")
  /\ ForwardsOf(Get(Stored, "s1")) = <<LocalForward>>

\* add s2 invalid, run before any profile is stored
C15_WitnessEmpty ==
  /\ call.op = "main"
  /\ call.args.command = "add"
  /\ call.args.name = "s2"
  /\ exit_code = PyInt(1)
  /\ ~profiles_file.exists

\* C16: connect on a stored profile, in both modes and whatever the client
\* then does (also when it cannot be started), leaves the profile stored
\* with last_used set to the time of the call; the other fields of the
\* profile and the other profiles are as before.
C16_StampedBeforeLaunch ==
  [][ call'.op = "connect" =>
        \A name \in {call'.args.name}, store \in {Stored}, next \in {StoredNext} :
          Has(store, name) =>
            \A before \in {Get(store, name)}, after \in {Get(next, name)} :
              /\ call'.cmd # <<>>
              /\ Get(after, "last_used") = isoformat(now)
              /\ Keys(after) = Keys(before) \cup {"last_used"}
              /\ \A k \in Keys(before) \ {"last_used"} : Get(after, k) = Get(before, k)
              /\ OthersUnchanged(store, next, name)
    ]_vars

\* a background client that could not be started, the use stamped all the
\* same while the other profile has never been used
C16_Witness ==
  /\ call.op = "connect"
  /\ call.args.background
  /\ call.exc = "OSError"
  /\ ~call.launched
  /\ now = 2
  /\ Get(Get(Stored, "s1"), "last_used") = isoformat(2)
  /\ Get(Get(Stored, "s1"), "created") = isoformat(1)
  /\ Has(Stored, "s2")
  /\ Get(Get(Stored, "s2"), "last_used") = PyNone

\* a foreground client that ran and left
C16_WitnessForeground ==
  /\ call.op = "connect"
  /\ ~call.args.background
  /\ call.launched
  /\ Get(Get(Stored, "s1"), "last_used") = isoformat(now)

\* C17: load_profiles returns a mapping whatever the file holds, the empty
\* one when the text is no JSON or a JSON value that is no object, and so
\* add_profile, delete_profile, add_forward and connect raise nothing.
C17_AlwaysMapping ==
  [][ /\ call'.op = "load_profiles" =>
           /\ IsDict(call'.ret)
           /\ (profiles_file.exists /\ profiles_file.text \in BadTexts \cup OtherTexts) =>
                call'.ret = EmptyDict
      /\ call'.op \in {"add_profile", "delete_profile", "add_forward", "connect"} =>
           call'.exc = ""
    ]_vars

\* C18: nothing protects the load-modify-save of the profile store.  When
\* an invocation saves after another one, for a different name, has saved
\* since it loaded, the file holds the other's profile before the save and
\* the saver's mapping, without it, after the save: the other's change is
\* lost.
C18_LostUpdate ==
  [][ call'.op = "add_profile_save" =>
        \A p \in {call'.args.proc}, before \in {Stored}, after \in {StoredNext} :
          /\ after = running[p].profiles
          /\ \A q \in Procs \ {p} :
               ( /\ running[q].pc = "done"
                 /\ running[q].args.name # running[p].args.name
                 /\ ~Has(running[p].profiles, running[q].args.name) ) =>
                   /\ Has(before, running[q].args.name)
                   /\ ~Has(after, running[q].args.name)
                   /\ Has(after, running[p].args.name)
    ]_vars

\* both invocations loaded the empty store, the one adding s1 saved first
\* and the one adding s2 last: s1 is lost
C18_Witness ==
  /\ call.op = "add_profile_save"
  /\ \A p \in Procs : running[p].pc = "done" /\ Len(running[p].profiles.kv) = 1
  /\ {running[p].args.name : p \in Procs} = {"s1", "s2"}
  /\ running[call.args.proc].args.name = "s2"
  /\ Keys(Stored) = {"s2"}

\* the file is there and its text is no JSON
Torn(file) == file.exists /\ ~loads(file.text).ok

\* C19: a save cut short leaves a file that is no JSON, whatever was stored
\* before; load_profiles then raises nothing and returns the empty mapping,
\* not a part of the new mapping and not the old one; the next add_profile
\* stores its profile alone, and delete_profile and add_forward find no
\* profile and leave the file as it is.
C19_CutSave ==
  [][ /\ call'.exc = "killed" =>
           /\ Torn(profiles_file')
           /\ load_profiles(profiles_file') = EmptyDict
      /\ Torn(profiles_file) =>
           /\ call'.op = "load_profiles" => call'.exc = "" /\ call'.ret = EmptyDict
           /\ (call'.op = "add_profile" /\ call'.exc = "") =>
                /\ ~Torn(profiles_file')
                /\ Keys(StoredNext) = {call'.args.name}
           /\ call'.op \in {"delete_profile", "add_forward"} =>
                call'.ret = PyBool(FALSE) /\ UNCHANGED profiles_file
    ]_vars

\* two profiles were stored and the save was cut in the middle of its text:
\* load_profiles has returned the empty mapping
C19_Witness ==
  /\ call.op = "load_profiles"
  /\ call.ret = EmptyDict
  /\ Torn(profiles_file)
  /\ Len(profiles_file.text) > 8
  /\ profiles_file.text[1] = LBrace
  /\ profiles_file.text[2] = PyStr("s1")
  /\ PyStr("s2") \in Range(profiles_file.text)

\* the process has just died with two profiles stored before
C19_WitnessKilled ==
  /\ call.exc = "killed"
  /\ Keys(call.args.before) = {"s1", "s2"}
  /\ Stored = EmptyDict

\* a port is an integer from 1 to 65535
IsPort(v) == v.ty = "int" /\ v.n \in 1..65535

\* C20: every forward of every stored profile has the direction local or
\* remote, a local and a remote port that are integers from 1 to 65535, and
\* a remote host.
C20_ForwardsInRange ==
  \A stored \in {Stored} :
    \A name \in Keys(stored) :
      \A f \in Range(ForwardsOf(Get(stored, name))) :
        /\ Has(f, "type") /\ Get(f, "type") \in {PyStr("local"), PyStr("remote")}
        /\ Has(f, "local_port") /\ IsPort(Get(f, "local_port"))
        /\ Has(f, "remote_port") /\ IsPort(Get(f, "remote_port"))
        /\ Has(f, "remote_host") /\ Get(f, "remote_host").ty = "str"

====
